---- MODULE Spec2Model ----
(***************************************************************************)
(* Model of the HR-Analytics snapshot reconciliation:                      *)
(*   - latest_per_employee of hr_analytics_app.py and of pages/utils.py,   *)
(*   - the date normalisation both load_data functions run before it,      *)
(*   - load_data of hr_analytics_app.py (snapshot composition) and the     *)
(*     module-level column guard that follows it,                          *)
(*   - load_data of pages/utils.py and the "latest" resolution of          *)
(*     pages/pages/2_Salary.py,                                            *)
(*   - the reading of the CSV files, st.cache_data and the wall clock,     *)
(*   - the page routing of hr_analytics_app.py (session state, query       *)
(*     string, top_nav and the render dispatch).                           *)
(*                                                                         *)
(* A DataFrame is a record [cols, rows, index]: the set of column names,   *)
(* the sequence of rows (each a function from cols to cells) and the       *)
(* sequence of index labels (a label is the row's position in the frame    *)
(* that was read from the CSV file).  Cells are integers: identifiers and  *)
(* payloads are positive, NA (NaN / NaT) is the one missing-value marker.  *)
(***************************************************************************)
EXTENDS Integers, Sequences, FiniteSets, TLC

\* ------------------------------------------------------------------ bounds
MaxRows == 3    \* rows of the table handed to latest_per_employee
MaxId == 2      \* employee identifiers are 1..MaxId
MaxT == 3       \* parseable dates are 1..MaxT (ticks after the epoch)
MaxLoadRows == 2    \* rows of a CSV file that load_data reads
TicksPerYear == 2   \* resolution of the model's clock
MaxCalls == 2       \* load_data calls followed in one behaviour
ClockSpan == 2      \* ticks the wall clock advances in one behaviour
MaxNameRows == 1    \* rows of a file whose column names are varied
MaxRuns == 3        \* script runs of hr_analytics_app.py followed in one behaviour

\* --------------------------------------------------------------- constants
NA == -1        \* NaN / NaT: what errors="coerce" produces
BadText == -2   \* a CSV cell holding text that is not a date
Epoch == 0      \* pd.Timestamp("1970-01-01")

\* ------------------------------------------------------------- DataFrames
EmptyFrame == [cols |-> {}, rows |-> <<>>, index |-> <<>>]

\* DataFrame.empty: any axis of length 0
IsEmpty(t) == t.cols = {} \/ Len(t.rows) = 0

\* df[c] = value for every row (adds the column, or overwrites it)
SetColumn(t, c, v) ==
    [t EXCEPT !.cols = t.cols \cup {c},
              !.rows = [p \in 1..Len(t.rows) |->
                           [k \in t.cols \cup {c} |->
                               IF k = c THEN v ELSE t.rows[p][k]]]]

\* pd.to_datetime(x, errors="coerce") on one cell: a date or a Timestamp is
\* kept, anything else (text that is no date, an empty cell) becomes NaT
to_dt(x) == IF x >= Epoch THEN x ELSE NA

\* df[c] = pd.to_datetime(df[c], errors="coerce")
CoerceColumn(t, c) ==
    [t EXCEPT !.rows = [p \in 1..Len(t.rows) |->
                           [k \in t.cols |->
                               IF k = c THEN to_dt(t.rows[p][k])
                                        ELSE t.rows[p][k]]]]

\* (mutation: sort_values(..., ascending=False))
CellLessDescending(a, b) == b # NA /\ (a = NA \/ b < a)

\* the order sort_values puts two cells in: ascending, NA last
CellLess(a, b) == a # NA /\ (b = NA \/ a < b)

\* row at position i goes before the row at position j: lexicographic on
\* the key columns, and the sort is stable (equal keys keep frame order)
RECURSIVE KeysLess(_, _, _)
KeysLess(ri, rj, keys) ==
    IF keys = <<>> THEN FALSE
    ELSE \/ CellLess(ri[Head(keys)], rj[Head(keys)])
         \/ /\ ri[Head(keys)] = rj[Head(keys)]
            /\ KeysLess(ri, rj, Tail(keys))

RECURSIVE KeysEqual(_, _, _)
KeysEqual(ri, rj, keys) ==
    IF keys = <<>> THEN TRUE
    ELSE ri[Head(keys)] = rj[Head(keys)] /\ KeysEqual(ri, rj, Tail(keys))

\* (mutation: a sort that is not stable, equal keys come out reversed)
BeforeUnstable(t, keys, i, j) ==
    \/ KeysLess(t.rows[i], t.rows[j], keys)
    \/ KeysEqual(t.rows[i], t.rows[j], keys) /\ i > j

Before(t, keys, i, j) ==
    \/ KeysLess(t.rows[i], t.rows[j], keys)
    \/ KeysEqual(t.rows[i], t.rows[j], keys) /\ i < j

\* df.sort_values(keys): the permutation of the frame's positions
SortOrder(t, keys) ==
    LET n == Len(t.rows)
        rank(i) == 1 + Cardinality({j \in 1..n : Before(t, keys, j, i)})
    IN  [p \in 1..n |-> CHOOSE i \in 1..n : rank(i) = p]

\* the frame with its rows (and their index labels) at the given positions
TakeRows(t, ord) ==
    [t EXCEPT !.rows  = [p \in 1..Len(ord) |-> t.rows[ord[p]]],
              !.index = [p \in 1..Len(ord) |-> t.index[ord[p]]]]

SortValues(t, keys) == TakeRows(t, SortOrder(t, keys))

\* the positions of a set, ascending
RECURSIVE Ascending(_)
Ascending(S) ==
    IF S = {} THEN <<>>
    ELSE LET m == CHOOSE x \in S : \A y \in S : x <= y
         IN  <<m>> \o Ascending(S \ {m})

\* (mutation: df.tail(1) without the groupby)
FrameTail(t, key) ==
    TakeRows(t, IF Len(t.rows) = 0 THEN <<>> ELSE <<Len(t.rows)>>)

\* df.groupby(key, as_index=False).tail(1): the last row of every group, in
\* frame order
GroupTail(t, key) ==
    LET n == Len(t.rows)
        last == {p \in 1..n : \A q \in (p + 1)..n : t.rows[q][key] # t.rows[p][key]}
    IN  TakeRows(t, Ascending(last))

\* ------------------------------------------------- latest_per_employee (x2)
Returned(f) == [raised |-> FALSE, frame |-> f]
Raised == [raised |-> TRUE, frame |-> EmptyFrame]

\* pages/utils.py
UtilsLatestPerEmployee(df, date_col) ==
    IF IsEmpty(df) \/ "employee_id" \notin df.cols
    THEN Returned(EmptyFrame)
    ELSE LET d0 == IF date_col \notin df.cols
                   THEN SetColumn(df, "_tmp_date", Epoch) ELSE df
             dc == IF date_col \notin df.cols THEN "_tmp_date" ELSE date_col
             d1 == CoerceColumn(d0, dc)
             d2 == SortValues(d1, <<"employee_id", dc>>)
         IN  Returned(GroupTail(d2, "employee_id"))

\* (mutation: d = df, the selector works on the caller's frame)
UtilsArgAliased(df, date_col) ==
    IF IsEmpty(df) \/ "employee_id" \notin df.cols THEN df
    ELSE IF date_col \notin df.cols
         THEN CoerceColumn(SetColumn(df, "_tmp_date", Epoch), "_tmp_date")
         ELSE CoerceColumn(df, date_col)

\* the caller's frame after the call: d = df.copy() takes the column
\* assignments, and sort_values and tail return new frames
UtilsArgAfter(df, date_col) == df

\* hr_analytics_app.py: tmp = df.copy() in both branches
AppArgAfter(df, sort_col) == df

\* hr_analytics_app.py: no guard on the identifier column, sort_values
\* raises KeyError when it is missing
AppLatestPerEmployee(df, sort_col) ==
    IF IsEmpty(df) THEN Returned(df)
    ELSE LET tmp == IF sort_col \notin df.cols
                    THEN SetColumn(df, sort_col, Epoch) ELSE df
         IN  IF "employee_id" \notin tmp.cols THEN Raised
             ELSE Returned(GroupTail(SortValues(tmp, <<"employee_id", sort_col>>),
                                     "employee_id"))

\* ------------------------------------------------ more DataFrame operations
\* safe_cols(df, cols)
safe_cols(t, cs) == cs \subseteq t.cols

\* df[[c, ...]] for columns the frame has
Project(t, cs) ==
    [t EXCEPT !.cols = cs,
              !.rows = [p \in 1..Len(t.rows) |-> [k \in cs |-> t.rows[p][k]]]]

\* df.rename(columns={old: new}); a frame without the column is returned as is
RenameColumn(t, old, new) ==
    IF old \notin t.cols THEN t
    ELSE LET cs == (t.cols \ {old}) \cup {new}
         IN  [t EXCEPT !.cols = cs,
                       !.rows = [p \in 1..Len(t.rows) |->
                                    [k \in cs |-> IF k = new THEN t.rows[p][old]
                                                           ELSE t.rows[p][k]]]]

\* df.drop_duplicates(): the first of every group of equal rows
DropDuplicates(t) ==
    TakeRows(t, Ascending({p \in 1..Len(t.rows) :
                              \A q \in 1..(p - 1) : t.rows[q] # t.rows[p]}))

\* df.dropna(): the rows without a missing cell
DropNa(t) ==
    TakeRows(t, Ascending({p \in 1..Len(t.rows) :
                              \A k \in t.cols : t.rows[p][k] # NA}))

\* the rows a left row contributes to a left join: one per matching right row,
\* in the right frame's order, or one with the right columns missing
JoinedRows(l, left, right, key) ==
    LET cs == left.cols \cup right.cols
        hits == Ascending({q \in 1..Len(right.rows) : right.rows[q][key] = l[key]})
    IN  IF hits = <<>>
        THEN << [k \in cs |-> IF k \in left.cols THEN l[k] ELSE NA] >>
        ELSE [h \in 1..Len(hits) |->
                 [k \in cs |-> IF k \in left.cols THEN l[k]
                                                  ELSE right.rows[hits[h]][k]]]

RECURSIVE MergeFrom(_, _, _, _)
MergeFrom(left, right, key, p) ==
    IF p > Len(left.rows) THEN <<>>
    ELSE JoinedRows(left.rows[p], left, right, key)
             \o MergeFrom(left, right, key, p + 1)

\* a frame as read_csv or merge returns it: the index labels are the positions
Frame(cs, rs) == [cols |-> cs, rows |-> rs, index |-> [p \in 1..Len(rs) |-> p]]

\* (mutation: how="right", the rows of the right frame decide the result)
MergeRight(left, right, key) ==
    Frame(left.cols \cup right.cols, MergeFrom(right, left, key, 1))

\* left.merge(right, on=key, how="left") for frames that both have the key
\* column and share no other column
Merge(left, right, key) ==
    Frame(left.cols \cup right.cols, MergeFrom(left, right, key, 1))

\* the same merge as a step of a computation that may already have raised:
\* KeyError when a side lacks the key column
MergeOn(res, right, key) ==
    IF res.raised \/ key \notin res.frame.cols \/ key \notin right.cols
    THEN Raised
    ELSE Returned(Merge(res.frame, right, key))

\* "Normalize dates": df[c] = to_dt(df[c]) for each listed column the frame has
RECURSIVE NormalizeFrame(_, _)
NormalizeFrame(t, cs) ==
    IF cs = {} THEN t
    ELSE LET c == CHOOSE x \in cs : TRUE
             u == IF c \in t.cols THEN CoerceColumn(t, c) ELSE t
         IN  NormalizeFrame(u, cs \ {c})

\* emp[new] = vals: a new column from a series of the frame's length
AssignColumn(t, new, vals) ==
    LET cs == t.cols \cup {new}
    IN  [t EXCEPT !.cols = cs,
                  !.rows = [p \in 1..Len(t.rows) |->
                               [k \in cs |-> IF k = new THEN vals[p]
                                                      ELSE t.rows[p][k]]]]

\* ------------------------------------------------- hr_analytics_app.load_data
\* the number of columns labelled c after df.rename(columns={old: new}):
\* rename relabels and does not merge, so a frame that has both old and new
\* comes out with two columns labelled new
LabelCount(t, old, new, c) ==
    (IF c \in t.cols \ {old} THEN 1 ELSE 0)
    + (IF c = new /\ old \in t.cols THEN 1 ELSE 0)

\* load_data of hr_analytics_app.py after "Normalize dates" and "Basic
\* employee frame": the salary table (no column of it is renamed) and the
\* number of employee_id labels of emp
AppNormalized(files) ==
    [salary |-> NormalizeFrame(files.salary, {"from_date", "to_date"}),
     idLabels |-> LabelCount(NormalizeFrame(files.employee,
                                 {"birth_date", "hire_date", "termination_date"}),
                             "id", "employee_id", "employee_id")]

\* Timestamp.year: the model's clock ticks TicksPerYear times a year
Year(t) == t \div TicksPerYear

\* emp["age"] = datetime.now().year - emp["birth_date"].dt.year
WithAge(emp, now) ==
    IF "birth_date" \in emp.cols
    THEN AssignColumn(emp, "age",
             [p \in 1..Len(emp.rows) |->
                 LET b == emp.rows[p]["birth_date"]
                 IN  IF b = NA THEN NA ELSE Year(now) - Year(b)])
    ELSE SetColumn(emp, "age", NA)

\* emp["company_tenure"] = (pd.Timestamp.today() - emp["hire_date"]).dt.days / 365.25
\* (kept in ticks: the division is a fixed scaling)
WithTenure(emp, today) ==
    IF "hire_date" \in emp.cols
    THEN AssignColumn(emp, "company_tenure",
             [p \in 1..Len(emp.rows) |->
                 LET h == emp.rows[p]["hire_date"]
                 IN  IF h = NA THEN NA ELSE today - h])
    ELSE SetColumn(emp, "company_tenure", NA)

\* (mutation: no fallback to the current-snapshot table)
AppDeptLatestNoFallback(dept_emp, department, cur_snap) ==
    IF safe_cols(dept_emp, {"employee_id", "dept_id"})
         /\ safe_cols(department, {"dept_id", "dept_name"})
    THEN LET l == AppLatestPerEmployee(
                      dept_emp,
                      IF "to_date" \in dept_emp.cols THEN "to_date" ELSE "from_date").frame
         IN  Project(Merge(l, department, "dept_id"),
                     {"employee_id", "dept_id", "dept_name"})
    ELSE Frame({"employee_id", "dept_name"}, <<>>)

\* "Latest dept"
AppDeptLatest(dept_emp, department, cur_snap) ==
    IF safe_cols(dept_emp, {"employee_id", "dept_id"})
         /\ safe_cols(department, {"dept_id", "dept_name"})
    THEN LET l == AppLatestPerEmployee(
                      dept_emp,
                      IF "to_date" \in dept_emp.cols THEN "to_date" ELSE "from_date").frame
         IN  Project(Merge(l, department, "dept_id"),
                     {"employee_id", "dept_id", "dept_name"})
    ELSE DropDuplicates(Project(cur_snap, {"employee_id", "dept_name"} \cap cur_snap.cols))

\* "Latest title"
AppTitleLatest(title, cur_snap) ==
    IF safe_cols(title, {"employee_id", "title"})
    THEN Project(AppLatestPerEmployee(
                     title,
                     IF "to_date" \in title.cols THEN "to_date" ELSE "from_date").frame,
                 {"employee_id", "title"})
    ELSE DropDuplicates(Project(cur_snap, {"employee_id", "title"} \cap cur_snap.cols))

\* "Latest salary"
AppSalLatest(salary) ==
    IF safe_cols(salary, {"employee_id", "amount"})
    THEN RenameColumn(
             Project(AppLatestPerEmployee(
                         salary,
                         IF "from_date" \in salary.cols THEN "from_date" ELSE "amount").frame,
                     {"employee_id", "amount"}),
             "amount", "latest_salary")
    ELSE Frame({"employee_id", "latest_salary"}, <<>>)

\* "Bring extra columns from current snapshot if any"
AppExtraCols(res, cur_snap) ==
    IF res.raised THEN Raised
    ELSE LET extra == (cur_snap.cols \ res.frame.cols) \ {"employee_id"}
         IN  IF extra = {} THEN res
             ELSE IF "employee_id" \notin cur_snap.cols THEN Raised
             ELSE MergeOn(res, Project(cur_snap, {"employee_id"} \cup extra),
                          "employee_id")

\* load_data() of hr_analytics_app.py: the snapshot it returns, or the
\* exception.  files: the six CSV files as read; now, today: the two clock
\* readings it takes
AppLoadData(files, now, today) ==
    LET salary     == NormalizeFrame(files.salary, {"from_date", "to_date"})
        dept_emp   == NormalizeFrame(files.dept_emp, {"from_date", "to_date"})
        title      == NormalizeFrame(files.title, {"from_date", "to_date"})
        employee   == NormalizeFrame(files.employee,
                                     {"birth_date", "hire_date", "termination_date"})
        cur_snap   == files.cur_snap
        department == files.department
        \* rename gives two columns labelled employee_id when both are there,
        \* and merge then raises ValueError
        twoIds == {"id", "employee_id"} \subseteq employee.cols
        emp == WithTenure(WithAge(RenameColumn(employee, "id", "employee_id"), now),
                          today)
        base == IF twoIds THEN Raised ELSE Returned(emp)
        joined == MergeOn(
                      MergeOn(
                          MergeOn(base, AppDeptLatest(dept_emp, department, cur_snap),
                                  "employee_id"),
                          AppTitleLatest(title, cur_snap), "employee_id"),
                      AppSalLatest(salary), "employee_id")
    IN  AppExtraCols(joined, cur_snap)

TrackedCols == {"dept_name", "title", "company_tenure", "age", "latest_salary"}

\* (mutation: the guard loop is left out)
EnsureNothing(t, cs) == t

\* "Ensure key columns exist to avoid KeyErrors later"
RECURSIVE EnsureColumns(_, _)
EnsureColumns(t, cs) ==
    IF cs = {} THEN t
    ELSE LET c == CHOOSE x \in cs : TRUE
         IN  EnsureColumns(IF c \in t.cols THEN t ELSE SetColumn(t, c, NA), cs \ {c})

\* -------------------------------------------------------- pages/utils.py
\* load_data() of pages/utils.py: the dict it returns (it does not raise)
UtilsLoadData(files, now, today) ==
    LET salary0  == IF "salary" \in files.salary.cols /\ "amount" \notin files.salary.cols
                    THEN RenameColumn(files.salary, "salary", "amount")
                    ELSE files.salary
        employee0 == IF "id" \in files.employee.cols
                          /\ "employee_id" \notin files.employee.cols
                     THEN RenameColumn(files.employee, "id", "employee_id")
                     ELSE files.employee
        salary   == NormalizeFrame(salary0, {"from_date", "to_date"})
        dept_emp == NormalizeFrame(files.dept_emp, {"from_date", "to_date"})
        title    == NormalizeFrame(files.title, {"from_date", "to_date"})
        employee == NormalizeFrame(employee0,
                                   {"birth_date", "hire_date", "termination_date"})
        snapshot == NormalizeFrame(files.cur_snap,
                                   {"birth_date", "hire_date", "termination_date"})
        \* emp["employee_id"] = np.arange(1, len(emp) + 1)
        emp0 == IF "employee_id" \in employee.cols THEN employee
                ELSE LET cs == employee.cols \cup {"employee_id"}
                     IN  [employee EXCEPT
                            !.cols = cs,
                            !.rows = [p \in 1..Len(employee.rows) |->
                                         [k \in cs |-> IF k = "employee_id" THEN p
                                                       ELSE employee.rows[p][k]]]]
    IN  [salary |-> salary, employee |-> WithTenure(WithAge(emp0, now), today),
         department |-> files.department, title |-> title,
         dept_emp |-> dept_emp, snapshot |-> snapshot]

\* pages/2_Salary.py, "prepare latest salary"
SalaryLatest(data) ==
    LET l0 == IF ~IsEmpty(data.salary)
              THEN UtilsLatestPerEmployee(data.salary, "from_date").frame
              ELSE EmptyFrame
    IN  IF "amount" \in l0.cols
        THEN Returned(RenameColumn(Project(l0, {"employee_id", "amount"}),
                                   "amount", "latest_salary"))
        ELSE IF "latest_salary" \in data.snapshot.cols
        THEN IF "employee_id" \notin data.snapshot.cols THEN Raised
             ELSE Returned(DropNa(Project(data.snapshot,
                                          {"employee_id", "latest_salary"})))
        ELSE Returned(l0)

\* ---------------------------------------------------------- reading the files
\* the files each program reads
AppFiles == {"salary", "employee", "cur_snap", "department", "dept_emp",
             "dept_mgr", "title"}
HomeFiles == {"employee", "salary", "department", "title"}

\* hr_analytics_app.py: pd.read_csv raises FileNotFoundError when a file is
\* not there, and load_data does not catch it
AppLoadFiles(fs, gone, now, today) ==
    IF AppFiles \cap gone # {} THEN Raised ELSE AppLoadData(fs, now, today)

\* pages/utils.py: _safe_read gives an empty DataFrame for a file that is in
\* neither place
SafeRead(fs, gone) ==
    [f \in DOMAIN fs |-> IF f \in gone THEN EmptyFrame ELSE fs[f]]

UtilsLoadFiles(fs, gone, now, today) ==
    UtilsLoadData(SafeRead(fs, gone), now, today)

\* pages/Home.py: load_data reads four files with pd.read_csv, then the
\* script takes the number of employees
HomeLoadData(fs, gone) ==
    IF HomeFiles \cap gone # {} THEN [raised |-> TRUE, total |-> 0]
    ELSE [raised |-> FALSE, total |-> Len(fs.employee.rows)]

\* ------------------------------------------- hr_analytics_app.py, page routing
\* the "page" entry of st.session_state or of st.query_params: present with a
\* string value, or not there
NoEntry == [has |-> FALSE, page |-> ""]
Entry(v) == [has |-> TRUE, page |-> v]

\* the five sections, and a value of the page parameter that is none of them
Pages == {"Description", "Demographics", "Salaries", "Promotions", "Retention"}
UnknownPage == "Payroll"
PageValues == Pages \cup {UnknownPage}
NoClick == ""

\* the render function the if/elif chain calls for a page it knows
RenderOf(page) ==
    CASE page = "Description"  -> "render_description"
      [] page = "Demographics" -> "render_demographics"
      [] page = "Salaries"     -> "render_salaries"
      [] page = "Promotions"   -> "render_promotions"
      [] page = "Retention"    -> "render_retention"

\* st.query_params.get("page", "Description")
QueryGet(qp, default) == IF qp.has THEN qp.page ELSE default

\* "Sync state with query params": only when the session has no page yet.
\* (The list guard after it does nothing: st.query_params.get returns a str.)
SyncState(ss, qp) == IF ss.has THEN ss ELSE Entry(QueryGet(qp, "Description"))

\* (mutation: the clicked button writes the query string only)
top_nav_url_only(ss, qp, click) ==
    IF click = NoClick THEN [ss |-> ss, qp |-> qp, out |-> <<>>]
    ELSE [ss |-> ss, qp |-> Entry(click), out |-> <<>>]

\* top_nav: the button that was clicked in the browser returns True in this
\* run and writes its page to the session state and to the query string
top_nav(ss, qp, click) ==
    IF click = NoClick THEN [ss |-> ss, qp |-> qp, out |-> <<>>]
    ELSE [ss |-> Entry(click), qp |-> Entry(click), out |-> <<>>]

\* (mutation: the else branch renders the description and resets nothing)
RenderPagesNoReset(ss, qp) ==
    IF ss.page \in Pages
    THEN [ss |-> ss, qp |-> qp, out |-> <<RenderOf(ss.page)>>]
    ELSE [ss |-> ss, qp |-> qp, out |-> <<"render_description">>]

\* "RENDER PAGES": page = st.session_state["page"], then the if/elif chain
\* with its fallback; out collects the render functions that were called
RenderPages(ss, qp) ==
    IF ss.page \in Pages
    THEN [ss |-> ss, qp |-> qp, out |-> <<RenderOf(ss.page)>>]
    ELSE [ss |-> Entry("Description"), qp |-> Entry("Description"),
          out |-> <<"render_description">>]

\* one run of the script from "PAGE ROUTING" to its last line
PageRouting(ss, qp, click) ==
    LET n == top_nav(SyncState(ss, qp), qp, click)
    IN  RenderPages(n.ss, n.qp)

\* ------------------------------------------------------------------ state
VARIABLES
    df,         \* the history table handed to the selector
    parsed,     \* whether the date normalisation has run on df
    utilsOut,   \* result of pages/utils.py latest_per_employee
    appOut,     \* result of hr_analytics_app.py latest_per_employee
    files,      \* the CSV files, as read_csv returns them
    appRun,     \* a run of hr_analytics_app.py: load_data and the column guard
    pageRun,    \* a run of pages/2_Salary.py: utils.load_data and "latest"
    absent,     \* the CSV files that do not exist where the program looks
    homeRun,    \* a run of pages/Home.py
    cache,      \* st.cache_data: the memoised return value of each load_data
    clock,      \* the wall clock
    calls,      \* the load_data calls made so far, with what each returned
    session_state,  \* st.session_state of the browser session: its "page" entry
    query_params,   \* st.query_params, the query string of the URL: its "page" entry
    log         \* the script runs of hr_analytics_app.py so far, one record each

vars == <<df, parsed, utilsOut, appOut, files, appRun, pageRun,
          absent, homeRun, cache, clock, calls,
          session_state, query_params, log>>

nav == <<session_state, query_params, log>>

\* --------------------------------------------------- the selector on its own
SortCol == "from_date"
SelCols == {"employee_id", SortCol}

CellDomain(c) == IF c = "employee_id" THEN 1..MaxId ELSE {BadText} \cup (1..MaxT)

RowsOver(cols) ==
    {r \in [cols -> (1..MaxId) \cup {BadText} \cup (1..MaxT)] :
        \A c \in cols : r[c] \in CellDomain(c)}

\* a call's outcome, with the argument it was given and the same frame as
\* the caller finds it after the call
NoCall == [done |-> FALSE, raised |-> FALSE, frame |-> EmptyFrame,
           arg |-> EmptyFrame, after |-> EmptyFrame]
Called(r, a, b) ==
    [done |-> TRUE, raised |-> r.raised, frame |-> r.frame, arg |-> a, after |-> b]

NoRun == [done |-> FALSE]

\* ------------------------------------------------------------- CSV contents
IdCols == {"employee_id", "id"}
DateCols == {"from_date", "to_date", "hire_date"}
Payloads == {1, 2}          \* department ids and names, titles, amounts
LoadDates == {1, MaxT}      \* dates in the files load_data reads

\* the cells a column of a CSV file may hold (one birth date and one gender
\* are enough: they are only copied, or subtracted from the clock)
LoadCell(c) == IF c \in IdCols THEN 1..MaxId
               ELSE IF c \in DateCols THEN LoadDates
               ELSE IF c \in {"birth_date", "gender"} THEN {1}
               ELSE Payloads

\* the rows over a set of columns
RECURSIVE LoadRows(_)
LoadRows(cols) ==
    IF cols = {} THEN {<<>>}
    ELSE LET c == CHOOSE x \in cols : TRUE
         IN  {[k \in cols |-> IF k = c THEN v ELSE r[k]] :
                 r \in LoadRows(cols \ {c}), v \in LoadCell(c)}

\* one row per employee, every cell of a column the same
PerEmployee(cells) ==
    Frame(DOMAIN cells \cup {"employee_id"},
          [e \in 1..MaxId |->
              [k \in DOMAIN cells \cup {"employee_id"} |->
                  IF k = "employee_id" THEN e ELSE cells[k]]])

EmployeeDefault == RenameColumn(PerEmployee(<<>>), "employee_id", "id")
DeptEmpDefault == PerEmployee([dept_id |-> 1, from_date |-> 1])
DeptEmpPartial == TakeRows(DeptEmpDefault, <<1>>)
DeptEmpUnusable == PerEmployee(<<>>)
DepartmentDefault ==
    Frame({"dept_id", "dept_name"},
          <<[dept_id |-> 1, dept_name |-> 1], [dept_id |-> 2, dept_name |-> 2]>>)
DepartmentNoName == Project(DepartmentDefault, {"dept_id"})
DepartmentTwice ==
    Frame({"dept_id", "dept_name"},
          <<[dept_id |-> 1, dept_name |-> 1], [dept_id |-> 1, dept_name |-> 2]>>)
TitleDefault == TakeRows(PerEmployee([title |-> 1, from_date |-> 1]), <<1>>)
TitleUnusable == PerEmployee(<<>>)
SalaryDefault == TakeRows(PerEmployee([amount |-> 1, from_date |-> 1]), <<1>>)
SalaryUnusable == PerEmployee(<<>>)
SnapDefault == PerEmployee([dept_name |-> 2, title |-> 2, gender |-> 1])
SnapNoId == Project(SnapDefault, {"dept_name", "title", "gender"})
SnapSalary == PerEmployee([latest_salary |-> 2])
SnapSalaryNoId == Project(SnapSalary, {"latest_salary"})

DefaultFiles ==
    [salary |-> SalaryDefault, employee |-> EmployeeDefault,
     cur_snap |-> SnapDefault, department |-> DepartmentDefault,
     dept_emp |-> DeptEmpDefault, title |-> TitleDefault]

\* the input space, explored one table at a time: one table takes every shape
\* and content within the bounds while the others are drawn from a few fixed
\* tables, and last every combination of the fixed tables
VarySalary ==
    \E cs \in SUBSET {"employee_id", "amount", "from_date"} :
    \E n \in 0..(IF cs = {} THEN 0 ELSE MaxLoadRows) :
    \E rs \in [1..n -> LoadRows(cs)] :
    \E snap \in {SnapDefault, SnapSalary} :
        files = [DefaultFiles EXCEPT !.salary = Frame(cs, rs), !.cur_snap = snap]

VaryTitle ==
    \E cs \in SUBSET {"employee_id", "title"} :
    \E n \in 0..(IF cs = {} THEN 0 ELSE MaxLoadRows) :
    \E rs \in [1..n -> LoadRows(cs)] :
    \E snap \in {SnapDefault, SnapNoId} :
        files = [DefaultFiles EXCEPT !.title = Frame(cs, rs), !.cur_snap = snap]

VaryDeptEmp ==
    \E cs \in SUBSET {"employee_id", "dept_id", "to_date"} :
    \E n \in 0..(IF cs = {} THEN 0 ELSE MaxLoadRows) :
    \E rs \in [1..n -> LoadRows(cs)] :
    \E d \in {DepartmentDefault, DepartmentTwice} :
        files = [DefaultFiles EXCEPT !.dept_emp = Frame(cs, rs), !.department = d]

VarySnap ==
    \E cs \in SUBSET {"employee_id", "dept_name", "gender"} :
    \E n \in 0..(IF cs = {} THEN 0 ELSE MaxLoadRows) :
    \E rs \in [1..n -> LoadRows(cs)] :
    \E de \in {DeptEmpPartial, DeptEmpUnusable} :
    \E ti \in {TitleDefault, TitleUnusable} :
        files = [DefaultFiles EXCEPT !.cur_snap = Frame(cs, rs),
                                     !.dept_emp = de, !.title = ti]

VaryEmployee ==
    \E cs \in SUBSET {"employee_id", "id", "birth_date", "hire_date"} :
    \E n \in 0..(IF cs = {} THEN 0 ELSE MaxLoadRows) :
    \E rs \in [1..n -> LoadRows(cs)] :
        /\ IdCols \subseteq cs => \A p \in 1..n : rs[p]["id"] = rs[p]["employee_id"]
        /\ files = [DefaultFiles EXCEPT !.employee = Frame(cs, rs)]

VaryShapes ==
    \E e \in {EmployeeDefault, PerEmployee([birth_date |-> 1, hire_date |-> MaxT])} :
    \E de \in {DeptEmpDefault, DeptEmpPartial, DeptEmpUnusable} :
    \E d \in {DepartmentDefault, DepartmentNoName, DepartmentTwice} :
    \E ti \in {TitleDefault, TitleUnusable} :
    \E sa \in {SalaryDefault, SalaryUnusable} :
    \E snap \in {SnapDefault, SnapNoId, SnapSalary, SnapSalaryNoId, EmptyFrame} :
        files = [salary |-> sa, employee |-> e, cur_snap |-> snap,
                 department |-> d, dept_emp |-> de, title |-> ti]

\* the example of the dashboard's data assumptions: three employees, a salary
\* history for two of them, no usable department history, and a
\* current-snapshot table with a department name (1, standing for "Ops") for
\* the third
ExampleEmployee ==
    Frame({"id"}, <<[id |-> 1], [id |-> 2], [id |-> 3]>>)
ExampleSalary ==
    Frame({"employee_id", "amount", "from_date"},
          <<[employee_id |-> 1, amount |-> 100, from_date |-> 2020],
            [employee_id |-> 1, amount |-> 150, from_date |-> 2021],
            [employee_id |-> 2, amount |-> 200, from_date |-> 2020]>>)
ExampleSnap ==
    Frame({"employee_id", "dept_name"}, <<[employee_id |-> 3, dept_name |-> 1]>>)

\* the example with the salary rows in every order, and every table the
\* example leaves open
VaryExample ==
    \E ord \in {o \in [1..3 -> 1..3] : \A i, j \in 1..3 : i # j => o[i] # o[j]} :
    \E de \in {DeptEmpUnusable, EmptyFrame} :
    \E d \in {DepartmentDefault, DepartmentNoName} :
    \E ti \in {TitleDefault, TitleUnusable, EmptyFrame} :
        files = [salary |-> Frame(ExampleSalary.cols, TakeRows(ExampleSalary, ord).rows),
                 employee |-> ExampleEmployee, cur_snap |-> ExampleSnap,
                 department |-> d, dept_emp |-> de, title |-> ti]

\* ------------------------------------------------------------------- Init
\* the wall clock: later than every date in the files
Clock == {MaxT + 1, MaxT + 2}

\* a fresh server process with every file in place
NoCache == [fn \in {"app", "utils"} |-> [done |-> FALSE]]
NothingElse ==
    /\ absent = {}
    /\ homeRun = NoRun
    /\ cache = NoCache
    /\ clock = MaxT + 1
    /\ calls = <<>>
    /\ session_state = NoEntry
    /\ query_params = NoEntry
    /\ log = <<>>

InitSel ==
    /\ \E cs \in SUBSET SelCols : \E n \in 0..MaxRows :
          /\ cs = {} => n = 0
          /\ \E rs \in [1..n -> RowsOver(cs)] : df = Frame(cs, rs)
    /\ parsed = FALSE
    /\ utilsOut = NoCall
    /\ appOut = NoCall
    /\ files = DefaultFiles
    /\ appRun = NoRun
    /\ pageRun = NoRun
    /\ NothingElse

InitLoad ==
    /\ df = EmptyFrame
    /\ parsed = FALSE
    /\ utilsOut = NoCall
    /\ appOut = NoCall
    /\ \/ VarySalary
       \/ VaryTitle
       \/ VaryDeptEmp
       \/ VarySnap
       \/ VaryEmployee
       \/ VaryShapes
       \/ VaryExample
    /\ appRun = NoRun
    /\ pageRun = NoRun
    /\ NothingElse

\* the variant column names of the employee and the salary file, in every
\* combination, the other files as in DefaultFiles
VaryNames ==
    \E ecs \in SUBSET {"id", "employee_id", "hire_date"} :
    \E scs \in SUBSET {"employee_id", "salary", "amount"} :
    \E en \in 0..(IF ecs = {} THEN 0 ELSE MaxNameRows) :
    \E sn \in 0..(IF scs = {} THEN 0 ELSE MaxNameRows) :
    \E ers \in [1..en -> LoadRows(ecs)] :
    \E srs \in [1..sn -> LoadRows(scs)] :
        files = [DefaultFiles EXCEPT !.employee = Frame(ecs, ers),
                                     !.salary = Frame(scs, srs)]

InitSchema ==
    /\ df = EmptyFrame
    /\ parsed = FALSE
    /\ utilsOut = NoCall
    /\ appOut = NoCall
    /\ VaryNames
    /\ appRun = NoRun
    /\ pageRun = NoRun
    /\ NothingElse

\* ----------------------------------------------------------------- actions
\* load_data, "Normalize dates": df[c] = to_dt(df[c]) for the date columns
\* the table has (in place)
NormalizeDates ==
    /\ ~parsed
    /\ df' = IF SortCol \in df.cols THEN CoerceColumn(df, SortCol) ELSE df
    /\ parsed' = TRUE
    /\ UNCHANGED <<nav, utilsOut, appOut, files, appRun, pageRun,
                 absent, homeRun, cache, clock, calls>>

\* pages/2_Salary.py line 13 and any other caller of the utils selector: a
\* script run calls it once on the table
CallUtilsLatest ==
    /\ ~utilsOut.done
    /\ utilsOut' = Called(UtilsLatestPerEmployee(df, SortCol), df,
                          UtilsArgAfter(df, SortCol))
    /\ df' = UtilsArgAfter(df, SortCol)
    /\ UNCHANGED <<nav, parsed, appOut, files, appRun, pageRun,
                 absent, homeRun, cache, clock, calls>>

\* hr_analytics_app.py load_data calls its selector after the normalisation,
\* once on the table
CallAppLatest ==
    /\ parsed /\ ~appOut.done
    /\ appOut' = Called(AppLatestPerEmployee(df, SortCol), df,
                        AppArgAfter(df, SortCol))
    /\ df' = AppArgAfter(df, SortCol)
    /\ UNCHANGED <<nav, parsed, utilsOut, files, appRun, pageRun,
                 absent, homeRun, cache, clock, calls>>

\* one run of hr_analytics_app.py up to the column guard: data = load_data(),
\* snapshot = data["snapshot"], then the five key columns are ensured
AppRun ==
    /\ ~appRun.done /\ ~pageRun.done /\ ~homeRun.done
    /\ \E now \in Clock : \E today \in Clock :
          /\ now <= today
          /\ LET r == AppLoadFiles(files, absent, now, today)
             IN  appRun' = [done |-> TRUE, raised |-> r.raised,
                            loaded |-> r.frame,
                            normalized |-> IF AppFiles \cap absent # {}
                                           THEN [salary |-> EmptyFrame, idLabels |-> 0]
                                           ELSE AppNormalized(files),
                            snapshot |-> IF r.raised THEN EmptyFrame
                                         ELSE EnsureColumns(r.frame, TrackedCols)]
    /\ UNCHANGED <<nav, df, parsed, utilsOut, appOut, files, pageRun,
                 absent, homeRun, cache, clock, calls>>

\* one run of pages/2_Salary.py up to "latest"
SalaryPageRun ==
    /\ ~appRun.done /\ ~pageRun.done /\ ~homeRun.done
    /\ \E now \in Clock : \E today \in Clock :
          /\ now <= today
          /\ LET data == UtilsLoadFiles(files, absent, now, today)
                 l == SalaryLatest(data)
             IN  pageRun' = [done |-> TRUE, raised |-> l.raised,
                             data |-> data, latest |-> l.frame]
    /\ UNCHANGED <<nav, df, parsed, utilsOut, appOut, files, appRun,
                 absent, homeRun, cache, clock, calls>>

\* one run of pages/Home.py up to the first metric
HomeRun ==
    /\ ~appRun.done /\ ~pageRun.done /\ ~homeRun.done
    /\ LET r == HomeLoadData(files, absent)
       IN  homeRun' = [done |-> TRUE, raised |-> r.raised, total |-> r.total]
    /\ UNCHANGED <<nav, df, parsed, utilsOut, appOut, files, appRun, pageRun,
                   absent, cache, clock, calls>>

\* A run of hr_analytics_app.py in the session: data = load_data() first
\* (an exception there ends the run before the routing code), then the
\* routing.  The record keeps what the run started from and what it did.
ScriptRun(ss, qp, trigger, click) ==
    LET failed == AppLoadFiles(files, absent, clock, clock).raised
        r == IF failed THEN [ss |-> ss, qp |-> qp, out |-> <<>>]
             ELSE PageRouting(ss, qp, click)
    IN  [ss |-> r.ss, qp |-> r.qp,
         entry |-> [trigger |-> trigger, click |-> click,
                    ss0 |-> ss, qp0 |-> qp, failed |-> failed,
                    rendered |-> r.out, ss |-> r.ss, qp |-> r.qp]]

\* the browser loads a URL, typed or edited, with or without a page
\* parameter: a new session, whose session state is empty
OpenUrl ==
    /\ Len(log) < MaxRuns
    /\ \E qp \in {NoEntry} \cup {Entry(v) : v \in PageValues} :
          LET r == ScriptRun(NoEntry, qp, "load", NoClick)
          IN  /\ session_state' = r.ss
              /\ query_params' = r.qp
              /\ log' = Append(log, r.entry)
    /\ UNCHANGED <<df, parsed, utilsOut, appOut, files, appRun, pageRun,
                   absent, homeRun, cache, clock, calls>>

\* a click on one of the five buttons that the last run drew
ClickButton ==
    /\ Len(log) < MaxRuns
    /\ Len(log) > 0 /\ ~log[Len(log)].failed
    /\ \E b \in Pages :
          LET r == ScriptRun(session_state, query_params, "click", b)
          IN  /\ session_state' = r.ss
              /\ query_params' = r.qp
              /\ log' = Append(log, r.entry)
    /\ UNCHANGED <<df, parsed, utilsOut, appOut, files, appRun, pageRun,
                   absent, homeRun, cache, clock, calls>>

\* any other rerun in the session: the Dark Mode toggle, or "Rerun" after
\* an exception
Rerun ==
    /\ Len(log) < MaxRuns
    /\ Len(log) > 0
    /\ LET r == ScriptRun(session_state, query_params, "rerun", NoClick)
       IN  /\ session_state' = r.ss
           /\ query_params' = r.qp
           /\ log' = Append(log, r.entry)
    /\ UNCHANGED <<df, parsed, utilsOut, appOut, files, appRun, pageRun,
                   absent, homeRun, cache, clock, calls>>

\* a missing CSV file is put in place
RestoreFiles ==
    /\ absent # {}
    /\ absent' = {}
    /\ UNCHANGED <<nav, df, parsed, utilsOut, appOut, files, appRun, pageRun,
                   homeRun, cache, clock, calls>>

NextSel == NormalizeDates \/ CallUtilsLatest \/ CallAppLatest

SpecSel == InitSel /\ [][NextSel]_vars

NextLoad == AppRun \/ SalaryPageRun

SpecLoad == InitLoad /\ [][NextLoad]_vars

SpecSchema == InitSchema /\ [][NextLoad]_vars

\* runs over a directory in which any of the files may be missing
InitFiles ==
    /\ df = EmptyFrame
    /\ parsed = FALSE
    /\ utilsOut = NoCall
    /\ appOut = NoCall
    /\ files \in {DefaultFiles, [DefaultFiles EXCEPT !.cur_snap = SnapSalary]}
    /\ appRun = NoRun
    /\ pageRun = NoRun
    /\ absent \in SUBSET AppFiles
    /\ homeRun = NoRun
    /\ cache = NoCache
    /\ clock = MaxT + 1
    /\ calls = <<>>
    /\ session_state = NoEntry
    /\ query_params = NoEntry
    /\ log = <<>>

NextFiles == AppRun \/ SalaryPageRun \/ HomeRun

SpecFiles == InitFiles /\ [][NextFiles]_vars

\* ------------------------------------------------- load_data behind its cache
LoadFns == {"app", "utils"}

\* what a call of load_data computes when its body runs: the snapshot of
\* hr_analytics_app.py, the dict of pages/utils.py (frame: its employee table)
LoadDataOf(fn, fs, gone, now, today) ==
    IF fn = "app"
    THEN LET r == AppLoadFiles(fs, gone, now, today)
         IN  [raised |-> r.raised, frame |-> r.frame, data |-> <<>>]
    ELSE LET d == UtilsLoadFiles(fs, gone, now, today)
         IN  [raised |-> FALSE, frame |-> d.employee, data |-> d]

\* the directory the server starts with, and two later contents of it
CacheFilesA ==
    [DefaultFiles EXCEPT !.employee = PerEmployee([birth_date |-> 1, hire_date |-> MaxT])]
CacheFilesB == [CacheFilesA EXCEPT !.salary = SalaryUnusable]
CacheFilesC ==
    [CacheFilesA EXCEPT !.employee = PerEmployee([birth_date |-> 1, hire_date |-> 1])]
CacheFiles == {CacheFilesA, CacheFilesB, CacheFilesC}

MaxClock == MaxT + 1 + ClockSpan

InitCache ==
    /\ df = EmptyFrame
    /\ parsed = FALSE
    /\ utilsOut = NoCall
    /\ appOut = NoCall
    /\ files \in CacheFiles
    /\ appRun = NoRun
    /\ pageRun = NoRun
    /\ NothingElse

\* a script run reaches "data = load_data()".  @st.cache_data: the function
\* has no argument that names the files or the time, so once it has returned
\* every later call in the same server process gets the memoised value; the
\* body runs (and reads the clock twice) only on a miss, and an exception is
\* not memoised
CachedLoadData(fn) ==
    /\ Len(calls) < MaxCalls
    /\ IF cache[fn].done
       THEN /\ calls' = Append(calls, [fn |-> fn, files |-> files, hit |-> TRUE,
                                       now |-> clock, today |-> clock,
                                       out |-> cache[fn].out])
            /\ UNCHANGED <<cache, clock>>
       ELSE \E today \in {clock, clock + 1} :
               /\ today <= MaxClock
               /\ LET out == LoadDataOf(fn, files, absent, clock, today)
                  IN  /\ calls' = Append(calls, [fn |-> fn, files |-> files,
                                                 hit |-> FALSE, now |-> clock,
                                                 today |-> today, out |-> out])
                      /\ cache' = IF out.raised THEN cache
                                  ELSE [cache EXCEPT ![fn] = [done |-> TRUE, out |-> out]]
               /\ clock' = today
    /\ UNCHANGED <<nav, df, parsed, utilsOut, appOut, files, appRun, pageRun,
                   absent, homeRun>>

\* time passes
Tick ==
    /\ clock < MaxClock
    /\ clock' = clock + 1
    /\ UNCHANGED <<nav, df, parsed, utilsOut, appOut, files, appRun, pageRun,
                   absent, homeRun, cache, calls>>

\* the server process is restarted (or the cache is cleared from the app
\* menu): st.cache_data keeps its values in the process's memory
Restart ==
    /\ cache # NoCache
    /\ cache' = NoCache
    /\ UNCHANGED <<nav, df, parsed, utilsOut, appOut, files, appRun, pageRun,
                   absent, homeRun, clock, calls>>

\* the CSV files are replaced on disk
RewriteFile ==
    /\ \E fs \in CacheFiles \ {files} : files' = fs
    /\ UNCHANGED <<nav, df, parsed, utilsOut, appOut, appRun, pageRun,
                   absent, homeRun, cache, clock, calls>>

NextCache == (\E fn \in LoadFns : CachedLoadData(fn)) \/ Tick \/ Restart \/ RewriteFile

SpecCache == InitCache /\ [][NextCache]_vars

\* The two selectors as functions of one table: both are applied to the same
\* frame, as it was read (ordering cells are still text) or after the date
\* normalisation.  On text, sort_values compares strings: BadText stands for
\* a text such as "-" that string order puts before every ISO date.
CallBothLatest ==
    /\ utilsOut' = Called(UtilsLatestPerEmployee(df, SortCol), df,
                          UtilsArgAfter(df, SortCol))
    /\ appOut' = Called(AppLatestPerEmployee(df, SortCol), df,
                        AppArgAfter(df, SortCol))
    /\ UNCHANGED <<nav, df, parsed, files, appRun, pageRun,
                 absent, homeRun, cache, clock, calls>>

NextBoth == NormalizeDates \/ CallBothLatest

SpecBoth == InitSel /\ [][NextBoth]_vars

\* the dashboard is opened in a directory that has every file, or lacks one
InitNav ==
    /\ df = EmptyFrame
    /\ parsed = FALSE
    /\ utilsOut = NoCall
    /\ appOut = NoCall
    /\ files = DefaultFiles
    /\ appRun = NoRun
    /\ pageRun = NoRun
    /\ absent \in {{}, {"salary"}}
    /\ homeRun = NoRun
    /\ cache = NoCache
    /\ clock = MaxT + 1
    /\ calls = <<>>
    /\ session_state = NoEntry
    /\ query_params = NoEntry
    /\ log = <<>>

NextNav == OpenUrl \/ ClickButton \/ Rerun \/ RestoreFiles

SpecNav == InitNav /\ [][NextNav]_vars

\* ========================================================= selector claims
Outs == {utilsOut, appOut}

\* positions of entity e in a table, and the parsed ordering value of a row
Pos(t, e) == {p \in 1..Len(t.rows) : t.rows[p]["employee_id"] = e}
Stamp(t, p) == to_dt(t.rows[p][SortCol])
AllValid(t, P) == \A p \in P : Stamp(t, p) # NA
AllInvalid(t, P) == \A p \in P : Stamp(t, p) = NA
Distinct(t, P) == \A p, q \in P : p # q => Stamp(t, p) # Stamp(t, q)
MaxStamp(t, P) == CHOOSE m \in {Stamp(t, p) : p \in P} : \A q \in P : Stamp(t, q) <= m
LastOf(P) == CHOOSE p \in P : \A q \in P : q <= p

\* index labels (positions in the input) of the rows selected for entity e
Selected(o, e) ==
    {o.frame.index[p] : p \in {q \in 1..Len(o.frame.rows) :
                                  o.frame.rows[q]["employee_id"] = e}}

\* C1: latest-wins. For an entity whose records carry valid, pairwise distinct
\* ordering timestamps, both selectors return exactly that entity's record
\* with the maximum timestamp, whatever the order of the input rows.
C1_LatestWins ==
    \A o \in Outs :
        (o.done /\ SelCols \subseteq o.arg.cols) =>
            \A e \in 1..MaxId :
                LET P == Pos(o.arg, e) IN
                (P # {} /\ AllValid(o.arg, P) /\ Distinct(o.arg, P)) =>
                    /\ ~o.raised
                    /\ Selected(o, e) =
                         {CHOOSE p \in P : Stamp(o.arg, p) = MaxStamp(o.arg, P)}
                    /\ \A q \in 1..Len(o.frame.rows) :
                         o.frame.rows[q]["employee_id"] = e =>
                             o.frame.rows[q][SortCol] = MaxStamp(o.arg, P)

\* an entity with three records at T1 < T2 < T3 given out of order (T3 first)
\* has been resolved by both selectors
C1_Witness ==
    /\ utilsOut.done /\ appOut.done /\ utilsOut.arg = appOut.arg
    /\ SelCols \subseteq appOut.arg.cols
    /\ \E e \in 1..MaxId :
          /\ Cardinality(Pos(appOut.arg, e)) = 3
          /\ Distinct(appOut.arg, Pos(appOut.arg, e))
          /\ AllValid(appOut.arg, Pos(appOut.arg, e))
          /\ Stamp(appOut.arg, 1) = MaxT
          /\ Selected(appOut, e) = {1}
          /\ Selected(utilsOut, e) = {1}

\* C2: for a table that has the identifier column, the result holds exactly
\* one record for each identifier of the input and no identifier twice.
C2_OnePerIdentifier ==
    \A o \in Outs :
        (o.done /\ "employee_id" \in o.arg.cols) =>
            /\ ~o.raised
            /\ \A e \in 1..MaxId :
                 Cardinality({q \in 1..Len(o.frame.rows) :
                                 o.frame.rows[q]["employee_id"] = e})
                   = IF Pos(o.arg, e) = {} THEN 0 ELSE 1
            /\ Len(o.frame.rows) =
                 Cardinality({o.arg.rows[p]["employee_id"] : p \in 1..Len(o.arg.rows)})

\* a table with three rows and two entities has been reduced to two rows
C2_Witness ==
    /\ utilsOut.done /\ appOut.done /\ utilsOut.arg = appOut.arg
    /\ "employee_id" \in appOut.arg.cols
    /\ Len(appOut.arg.rows) = 3
    /\ Len(appOut.frame.rows) = 2
    /\ Len(utilsOut.frame.rows) = 2

C5_InvalidIsMinimum ==
    \A o \in Outs :
        (o.done /\ SelCols \subseteq o.arg.cols) =>
            \A e \in 1..MaxId :
                LET P == Pos(o.arg, e) IN
                P # {} =>
                    /\ ~o.raised
                    /\ Selected(o, e) # {}
                    /\ (\E p \in P : Stamp(o.arg, p) # NA) =>
                          \A s \in Selected(o, e) : Stamp(o.arg, s) # NA

\* C6 (as claimed): a table without the identifier column gives an empty
\* result and no exception, in both selectors.
C6_MissingIdReturnsEmpty ==
    \A o \in Outs :
        (o.done /\ "employee_id" \notin o.arg.cols) =>
            ~o.raised /\ Len(o.frame.rows) = 0

InScope(t) == ~IsEmpty(t) /\ "employee_id" \in t.cols

C25_SelectorsEquivalent ==
    (utilsOut.done /\ appOut.done /\ utilsOut.arg = appOut.arg
        /\ InScope(utilsOut.arg))
    => /\ ~utilsOut.raised /\ ~appOut.raised
       /\ \A e \in 1..MaxId : Selected(utilsOut, e) = Selected(appOut, e)

\* the same statement restricted to tables whose ordering cells are already
\* timestamps or NaT (what load_data hands to the selector of the app)
HasText(t) ==
    SortCol \in t.cols /\ \E p \in 1..Len(t.rows) : t.rows[p][SortCol] = BadText

C25_OnNormalized ==
    (utilsOut.done /\ appOut.done /\ utilsOut.arg = appOut.arg
        /\ InScope(utilsOut.arg) /\ ~HasText(utilsOut.arg))
    => /\ ~utilsOut.raised /\ ~appOut.raised
       /\ \A e \in 1..MaxId : Selected(utilsOut, e) = Selected(appOut, e)

\* ======================================================== load_data claims
\* rows of entity e in a frame that has the identifier column
RowsOf(t, e) == {p \in 1..Len(t.rows) : t.rows[p]["employee_id"] = e}

\* the base table as load_data sees it (id renamed)
Base == RenameColumn(files.employee, "id", "employee_id")
BaseUsable == Cardinality(IdCols \cap files.employee.cols) = 1

\* whether a history table can be used as the primary source
DeptPrimary ==
    safe_cols(files.dept_emp, {"employee_id", "dept_id"})
        /\ safe_cols(files.department, {"dept_id", "dept_name"})
TitlePrimary == safe_cols(files.title, {"employee_id", "title"})
SalaryPrimary == safe_cols(files.salary, {"employee_id", "amount"})

\* the values a column of the snapshot holds for entity e
Resolved(col, e) ==
    {appRun.snapshot.rows[p][col] : p \in RowsOf(appRun.snapshot, e)}

\* the payload of the last record of entity e in a history table
LastPayload(t, col, e) == t.rows[LastOf(RowsOf(t, e))][col]

\* C4 (as claimed): when a history table lacks its ordering column, the
\* value load_data resolves for an entity is the payload of the entity's
\* last record in the table's row order (title, department and salary).
C4_NoOrderColumnLastRowWins ==
    (appRun.done /\ ~appRun.raised) =>
        \A e \in 1..MaxId :
            RowsOf(appRun.snapshot, e) # {} =>
                /\ (TitlePrimary /\ {"to_date", "from_date"} \cap files.title.cols = {}
                        /\ RowsOf(files.title, e) # {}) =>
                       Resolved("title", e) = {LastPayload(files.title, "title", e)}
                /\ (DeptPrimary /\ {"to_date", "from_date"} \cap files.dept_emp.cols = {}
                        /\ RowsOf(files.dept_emp, e) # {}) =>
                       Resolved("dept_id", e) = {LastPayload(files.dept_emp, "dept_id", e)}
                /\ (SalaryPrimary /\ "from_date" \notin files.salary.cols
                        /\ RowsOf(files.salary, e) # {}) =>
                       Resolved("latest_salary", e) =
                           {LastPayload(files.salary, "amount", e)}

\* the part of C4 that the code meets: title and department
C4_TitleAndDeptOnly ==
    (appRun.done /\ ~appRun.raised) =>
        \A e \in 1..MaxId :
            RowsOf(appRun.snapshot, e) # {} =>
                /\ (TitlePrimary /\ {"to_date", "from_date"} \cap files.title.cols = {}
                        /\ RowsOf(files.title, e) # {}) =>
                       Resolved("title", e) = {LastPayload(files.title, "title", e)}
                /\ (DeptPrimary /\ {"to_date", "from_date"} \cap files.dept_emp.cols = {}
                        /\ RowsOf(files.dept_emp, e) # {}) =>
                       Resolved("dept_id", e) = {LastPayload(files.dept_emp, "dept_id", e)}

\* C7 (as claimed): the snapshot has as many rows as the base employee table
\* and every base row appears in it exactly once, whatever the sources.
C7_OneRowPerBaseRow ==
    (appRun.done /\ ~appRun.raised) =>
        /\ Len(appRun.loaded.rows) = Len(files.employee.rows)
        /\ \A e \in 1..MaxId :
              Cardinality(RowsOf(appRun.loaded, e)) = Cardinality(RowsOf(Base, e))

\* what the secondary source (the current-snapshot table) holds for e
Secondary(col, e) ==
    IF safe_cols(files.cur_snap, {"employee_id", col})
    THEN {files.cur_snap.rows[p][col] : p \in RowsOf(files.cur_snap, e)}
    ELSE {}

\* C8 (as claimed): per entity, when the primary history source has no value
\* for the entity and the secondary source has one, the snapshot carries the
\* secondary value; when both have one, it carries the primary value.
C8_PerEntityFallback ==
    (appRun.done /\ ~appRun.raised) =>
        \A e \in 1..MaxId :
            RowsOf(appRun.snapshot, e) # {} =>
                /\ (Secondary("dept_name", e) # {}
                        /\ ~(DeptPrimary /\ RowsOf(files.dept_emp, e) # {})) =>
                       Resolved("dept_name", e) \subseteq Secondary("dept_name", e)
                /\ (Secondary("title", e) # {}
                        /\ ~(TitlePrimary /\ RowsOf(files.title, e) # {})) =>
                       Resolved("title", e) \subseteq Secondary("title", e)
                /\ (Secondary("latest_salary", e) # {}
                        /\ ~(SalaryPrimary /\ RowsOf(files.salary, e) # {})) =>
                       Resolved("latest_salary", e) \subseteq Secondary("latest_salary", e)
                /\ (TitlePrimary /\ RowsOf(files.title, e) # {}) =>
                       Resolved("title", e) \subseteq
                           {files.title.rows[p]["title"] : p \in RowsOf(files.title, e)}
                /\ (SalaryPrimary /\ RowsOf(files.salary, e) # {}) =>
                       Resolved("latest_salary", e) \subseteq
                           {files.salary.rows[p]["amount"] : p \in RowsOf(files.salary, e)}

\* C9 (as claimed): when the primary table of an attribute is unusable,
\* load_data does not raise and every entity's value is the fallback table's,
\* also when the fallback table lacks the identifier or the value column.
C9_UnusablePrimaryNeverRaises ==
    (appRun.done /\ BaseUsable) =>
        /\ (~DeptPrimary \/ ~TitlePrimary \/ ~SalaryPrimary) => ~appRun.raised
        /\ ~appRun.raised =>
              \A e \in 1..MaxId :
                  RowsOf(appRun.snapshot, e) # {} =>
                      /\ (~DeptPrimary /\ Secondary("dept_name", e) # {}) =>
                             Resolved("dept_name", e) \subseteq Secondary("dept_name", e)
                      /\ (~TitlePrimary /\ Secondary("title", e) # {}) =>
                             Resolved("title", e) \subseteq Secondary("title", e)

\* whether a column of a frame holds nothing but the unknown marker
AllUnknown(t, col) == \A p \in 1..Len(t.rows) : t.rows[p][col] = NA

IdsOf(t) ==
    IF "employee_id" \in t.cols
    THEN {t.rows[p]["employee_id"] : p \in 1..Len(t.rows)}
    ELSE {}

\* the identifiers seen in the attribute tables
AttributeIds ==
    IdsOf(files.salary) \cup IdsOf(files.title) \cup IdsOf(files.dept_emp)
        \cup IdsOf(files.cur_snap)

\* C11: whenever load_data returns, the identifiers in the snapshot are exactly
\* the identifiers of the base employee table; an entity seen only in an
\* attribute table (salary, title, department assignment, current snapshot)
\* is not in the snapshot.
C11_BaseIsUniverse ==
    (appRun.done /\ ~appRun.raised) =>
        /\ "employee_id" \in appRun.loaded.cols
        /\ IdsOf(appRun.loaded) = IdsOf(Base)
        /\ IdsOf(appRun.snapshot) = IdsOf(Base)
        /\ \A e \in AttributeIds \ IdsOf(Base) : e \notin IdsOf(appRun.snapshot)

\* a run over a base table with one employee while the attribute tables also
\* know another one
C11_Witness ==
    /\ appRun.done /\ ~appRun.raised
    /\ Cardinality(IdsOf(Base)) = 1
    /\ AttributeIds \ IdsOf(Base) # {}
    /\ IdsOf(appRun.snapshot) = IdsOf(Base)

\* C12 (as claimed): the snapshot has exactly one row for every identifier
\* seen in any input table (employee, salary, title, department assignment);
\* no entity is dropped because one table lacks it.
C12_OneRowPerObservedId ==
    (appRun.done /\ ~appRun.raised) =>
        \A e \in IdsOf(Base) \cup IdsOf(files.salary) \cup IdsOf(files.title)
                    \cup IdsOf(files.dept_emp) :
            Cardinality(RowsOf(appRun.loaded, e)) = 1

\* the half of C12 that C11 contradicts: no observed entity is missing from
\* the snapshot
C12_NoneDropped ==
    (appRun.done /\ ~appRun.raised) =>
        \A e \in IdsOf(files.salary) \cup IdsOf(files.title) \cup IdsOf(files.dept_emp) :
            RowsOf(appRun.loaded, e) # {}

\* C13 (as claimed): with a usable base table, load_data returns whatever
\* shape the attribute tables have (identifier column missing, ordering
\* column missing, no rows).
C13_LoadDataTotal ==
    (appRun.done /\ BaseUsable) => ~appRun.raised

\* whether the files are the example: employees 1, 2, 3, the three salary
\* records in some order, no usable department history, department 1 for
\* employee 3 in the current-snapshot table
IsExample ==
    /\ files.employee = ExampleEmployee
    /\ files.salary.cols = ExampleSalary.cols
    /\ Len(files.salary.rows) = 3
    /\ {files.salary.rows[p] : p \in 1..3} = {ExampleSalary.rows[p] : p \in 1..3}
    /\ ~DeptPrimary
    /\ files.cur_snap = ExampleSnap

\* C15: on the example, load_data returns a snapshot of three rows with
\* latest_salary 150 for employee 1, 200 for employee 2 and unknown for
\* employee 3, and dept_name unknown for employees 1 and 2 and the
\* current-snapshot table's department for employee 3.
C15_ExampleScenario ==
    (appRun.done /\ IsExample) =>
        /\ ~appRun.raised
        /\ Len(appRun.snapshot.rows) = 3
        /\ Resolved("latest_salary", 1) = {150}
        /\ Resolved("latest_salary", 2) = {200}
        /\ Resolved("latest_salary", 3) = {NA}
        /\ Resolved("dept_name", 1) = {NA}
        /\ Resolved("dept_name", 2) = {NA}
        /\ Resolved("dept_name", 3) = {1}

\* the example with the later salary record of employee 1 given first
C15_Witness ==
    /\ appRun.done /\ IsExample
    /\ files.salary.rows[1]["amount"] = 150
    /\ files.salary.rows[3]["amount"] = 100
    /\ Resolved("latest_salary", 1) = {150}
    /\ Resolved("dept_name", 3) = {1}

\* C20 (as claimed): whichever of the documented columns are missing from
\* the tables, a script run gets past load_data (and, in pages/2_Salary.py,
\* past the preparation of "latest") without an exception.
C20_MissingColumnsNeverRaise ==
    ~(IdCols \subseteq files.employee.cols) =>
        /\ appRun.done => ~appRun.raised
        /\ pageRun.done => ~pageRun.raised

\* ---------------------------------------------------------------------------
\* C24: schema normalisation yields one canonical shape. After the
\* normalisation step of either load_data the employee table has exactly one
\* column named employee_id, and the salary table has its payload under
\* "amount" whenever the file has it under "amount" or "salary", for every
\* combination of the variant column names in the files.
HasPayload == {"salary", "amount"} \cap files.salary.cols # {}

C24_AppCanonical ==
    appRun.done =>
        /\ appRun.normalized.idLabels = 1
        /\ HasPayload => "amount" \in appRun.normalized.salary.cols

C24_UtilsCanonical ==
    pageRun.done =>
        /\ "employee_id" \in pageRun.data.employee.cols
        /\ HasPayload => "amount" \in pageRun.data.salary.cols

C24_OneCanonicalShape == C24_AppCanonical /\ C24_UtilsCanonical

\* ============================================================ navigation claims
Runs == 1..Len(log)

\* the page a run is asked for: the clicked button's, else the one the
\* session holds, else the page parameter of the URL, else "Description"
Requested(e) ==
    IF e.click # NoClick THEN e.click
    ELSE IF e.ss0.has THEN e.ss0.page
    ELSE IF e.qp0.has THEN e.qp0.page
    ELSE "Description"

\* the page that is active once the run has processed its navigation input
ActivePage(e) == IF Requested(e) \in Pages THEN Requested(e) ELSE "Description"

C22_StateAndUrlInSync ==
    \A i \in Runs :
        ~log[i].failed =>
            /\ log[i].ss.has /\ log[i].qp.has
            /\ log[i].ss.page = log[i].qp.page

\* the runs after which the two do agree: a click, or the fallback, has
\* written both, or the session took the page from the URL's parameter
C22_InSyncOnceWritten ==
    \A i \in Runs :
        (/\ ~log[i].failed
         /\ \/ log[i].click # NoClick
            \/ Requested(log[i]) \notin Pages
            \/ log[i].trigger = "load" /\ log[i].qp0.has
            \/ log[i].ss0.has /\ log[i].ss0 = log[i].qp0)
        => log[i].ss = log[i].qp

C14_MissingFileNeverRaises ==
    /\ appRun.done => ~appRun.raised
    /\ homeRun.done => ~homeRun.raised
    /\ pageRun.done =>
          /\ \A f \in absent \cap {"salary", "title", "department", "dept_emp"} :
                 IsEmpty(pageRun.data[f])
          /\ "cur_snap" \in absent => IsEmpty(pageRun.data.snapshot)

\* the part of C14 that the code meets: pages/utils.py
C14_UtilsOnly ==
    pageRun.done =>
        /\ \A f \in absent \cap {"salary", "title", "department", "dept_emp"} :
               IsEmpty(pageRun.data[f])
        /\ "cur_snap" \in absent => IsEmpty(pageRun.data.snapshot)
        /\ "employee" \in absent => Len(pageRun.data.employee.rows) = 0

\* ===================================================== clock and cache claims
\* C16 (as claimed): two load_data calls over the same files return the same
\* value, derived fields age and company_tenure included.
C16_Deterministic ==
    \A i, j \in 1..Len(calls) :
        (calls[i].fn = calls[j].fn /\ calls[i].files = calls[j].files) =>
            calls[i].out = calls[j].out

\* C17 (as claimed): a call whose body runs takes age and company_tenure from
\* one and the same instant.
C17_SingleInstant ==
    \A i \in 1..Len(calls) : ~calls[i].hit => calls[i].now = calls[i].today

\* the part of C17 that the code meets: the derived fields of the snapshot
\* are those computed on the base table, before the joins
C17_DerivedOnBase ==
    \A i \in 1..Len(calls) :
        (calls[i].fn = "app" /\ ~calls[i].hit /\ ~calls[i].out.raised) =>
            LET emp == WithTenure(WithAge(
                           NormalizeFrame(calls[i].files.employee,
                                          {"birth_date", "hire_date"}),
                           calls[i].now), calls[i].today)
                keep == {"employee_id", "age", "company_tenure"}
            IN  \A p \in 1..Len(calls[i].out.frame.rows) :
                    \E q \in 1..Len(emp.rows) :
                        \A k \in keep : calls[i].out.frame.rows[p][k] = emp.rows[q][k]

\* C19 (as claimed): what a load_data call returns is what its body computes
\* from the files as they are at the time of the call; nothing of an earlier
\* call survives.
C19_RecomputedEveryCall ==
    \A i \in 1..Len(calls) :
        \E now \in (MaxT + 1)..MaxClock : \E today \in {now, now + 1} :
            calls[i].out = LoadDataOf(calls[i].fn, calls[i].files, absent, now, today)

====
